---- MODULE Spec2Model ----
(***************************************************************************)
(* Model of src/server.py: a Flask application with three GET routes over  *)
(* three module-level dictionaries.  Requests are handled by concurrent    *)
(* threads of the development server; the handler of /data writes the      *)
(* shared ZONE_DATA["timestamp"] and then serialises the shared dictionary.*)
(***************************************************************************)
EXTENDS Integers, FiniteSets, Sequences, TLC

\* Bounds of the model.
NReq == 2          \* request threads that can be in flight at once
MaxClock == 2      \* last value of the wall clock, in ticks
TicksPerSecond == 2 \* resolution of time.time() below one second

Req == 1..NReq

----------------------------------------------------------------------------
\* Python values.  An int literal and a float literal are different values;
\* a float m * 10^-s is kept as its decimal digits.
PyInt(n) == [type |-> "int", val |-> n]
PyFloat(m, s) == [type |-> "float", mant |-> m, scale |-> s]

IsScalar(v) == "type" \in DOMAIN v

\* int(time.time()): the clock is a float with sub-second resolution,
\* int() truncates it to whole seconds.
IntOfTime(ticks) == ticks \div TicksPerSecond

\* The literal of ZONE_DATA["payload"].
ZONE_PAYLOAD ==
  [ temperature       |-> PyFloat(169, 1),
    humidity          |-> PyFloat(334, 1),
    lux               |-> PyFloat(65516, 1),
    ph                |-> PyFloat(240, 1),
    ec                |-> PyFloat(1, 1),
    water_level       |-> PyInt(1),
    fan_status        |-> PyInt(1),
    light_status      |-> PyInt(1),
    curtain_status    |-> PyInt(1),
    valve_status      |-> PyInt(0),
    water_pump_status |-> PyInt(0),
    fogger_status     |-> PyInt(1),
    tp4_temperature   |-> PyFloat(182, 1),
    ec_a              |-> PyFloat(4, 1),
    ec_b              |-> PyFloat(6, 1),
    macro_status      |-> PyInt(1),
    micro_status      |-> PyInt(0) ]

\* ZONE_DATA as built at import time, when the clock shows `ticks`.
ZONE_DATA_Init(ticks) ==
  [ timestamp |-> PyInt(IntOfTime(ticks)), payload |-> ZONE_PAYLOAD ]

\* Mutant: the sensor count is edited without adding the fifth sensor.
SM_DATA_Miscounted ==
  [ no_of_soil_sensors |-> PyInt(5),
    payload |-> [ soil_moisture_1 |-> PyInt(45),
                  soil_moisture_2 |-> PyInt(47),
                  soil_moisture_3 |-> PyInt(44),
                  soil_moisture_4 |-> PyInt(46) ] ]

SM_DATA_Init ==
  [ no_of_soil_sensors |-> PyInt(4),
    payload |-> [ soil_moisture_1 |-> PyInt(45),
                  soil_moisture_2 |-> PyInt(47),
                  soil_moisture_3 |-> PyInt(44),
                  soil_moisture_4 |-> PyInt(46) ] ]

\* Mutant: the two lux setpoints are swapped.
SETPOINTS_Swapped ==
  ( "LUX-MINsetpoint" :> PyInt(7000) ) @@
  ( "LUX-MAXsetpoint" :> PyInt(3000) ) @@
  ( "EC-setpoint"     :> PyFloat(15, 1) )

SETPOINTS_Init ==
  ( "LUX-MINsetpoint" :> PyInt(3000) ) @@
  ( "LUX-MAXsetpoint" :> PyInt(7000) ) @@
  ( "EC-setpoint"     :> PyFloat(15, 1) )

----------------------------------------------------------------------------
\* JSON serialisation.  A JSON number is its decimal digits: an int n is
\* written with no fraction, a float keeps its fraction digits.
Pow10(n) == IF n = 0 THEN 1 ELSE IF n = 1 THEN 10 ELSE 100

\* Mutant: every number is written as an integer, the fraction is dropped.
JsonNumberTruncated(v) ==
  IF v.type = "int" THEN [mant |-> v.val, scale |-> 0]
                    ELSE [mant |-> v.mant \div Pow10(v.scale), scale |-> 0]

JsonNumber(v) ==
  IF v.type = "int" THEN [mant |-> v.val, scale |-> 0]
                    ELSE [mant |-> v.mant, scale |-> v.scale]

RECURSIVE JsonValue(_)
JsonValue(v) ==
  IF IsScalar(v) THEN JsonNumber(v)
                 ELSE [k \in DOMAIN v |-> JsonValue(v[k])]

JSON == "application/json"
HTML == "text/html; charset=utf-8"

\* flask.jsonify(obj): a 200 response of mimetype application/json whose
\* body is the serialised object.
jsonify(obj) ==
  [ status |-> 200, ctype |-> JSON, body |-> JsonValue(obj), acao |-> "" ]

\* Responses the framework builds itself; they carry no JSON body.
FrameworkResponse(code) ==
  [ status |-> code, ctype |-> HTML, body |-> <<>>, acao |-> "" ]

\* CORS(app) with its default options: every origin is allowed.  The hook
\* runs after every request; it echoes the request's Origin, and writes the
\* wildcard when the request has none.
NoOrigin == ""
\* Mutant: one fixed origin is allowed instead of every origin.
cors_one_origin(resp, origin) ==
  [ resp EXCEPT !.acao = "https://b.example" ]

cors_after_request(resp, origin) ==
  [ resp EXCEPT !.acao = IF origin = NoOrigin THEN "*" ELSE origin ]

----------------------------------------------------------------------------
\* The requests a client can send.
Routes == { "/data", "/data/1/sm", "/data/1/setpoints" }
Paths == Routes \cup { "/nonexistent" }
Methods == { "GET", "OPTIONS", "POST" }
Origins == { NoOrigin, "https://a.example" }

\* methods=["GET"]; the framework adds OPTIONS to every rule.
RouteMethods == { "GET", "OPTIONS" }

NoResp == FrameworkResponse(0)

VARIABLES
  now,        \* wall clock, in ticks
  ZONE_DATA,  \* the three module-level dictionaries
  SM_DATA,
  SETPOINTS,
  req,        \* per request thread: position, request, locals, response
  returned    \* highest timestamp of the /data responses already returned
              \* (a set: empty before the first response)

vars == << now, ZONE_DATA, SM_DATA, SETPOINTS, req, returned >>
records == << ZONE_DATA, SM_DATA, SETPOINTS >>

\* The highest element of a set of timestamps, as a set.
Latest(S) == { x \in S : \A y \in S : y <= x }

IdleReq ==
  [ pc |-> "idle", method |-> "GET", path |-> "/data", origin |-> NoOrigin,
    t |-> 0, resp |-> NoResp, seen |-> {} ]

Init ==
  /\ now \in 0..1
  /\ ZONE_DATA = ZONE_DATA_Init(now)
  /\ SM_DATA = SM_DATA_Init
  /\ SETPOINTS = SETPOINTS_Init
  /\ req = [r \in Req |-> IdleReq]
  /\ returned = {}

\* The wall clock advances; it never goes backwards.
Tick ==
  /\ now < MaxClock
  /\ now' = now + 1
  /\ UNCHANGED << records, req, returned >>

\* A connection is accepted by the first free thread, which starts handling
\* the request in state `pc`.  Routing reads no shared state.
FirstIdle(r) ==
  /\ req[r].pc = "idle"
  /\ \A q \in Req : q < r => req[q].pc # "idle"

Accepted(r, m, p, o, pc) ==
  [ req EXCEPT ![r] = [ IdleReq EXCEPT !.pc = pc, !.method = m, !.path = p,
                                       !.origin = o ] ]

\* The timestamp a client reads in the body of the /data response of r.
RespTimestamp(rq, r) == rq[r].resp.body.timestamp.mant

\* The state a thread is in once its response is complete.
Respond(rq, r, resp) ==
  [ rq EXCEPT ![r].pc = "done",
              ![r].resp = cors_after_request(resp, rq[r].origin) ]

\* Mutant: a catch-all rule serves the zone record, refreshed, for every
\* unknown path.
NotFoundCatchAll(r) ==
  /\ FirstIdle(r)
  /\ \E m \in Methods, p \in Paths \ Routes, o \in Origins :
       /\ ZONE_DATA' = [ZONE_DATA EXCEPT !.timestamp = PyInt(IntOfTime(now))]
       /\ req' = Respond(Accepted(r, m, p, o, "dispatch"), r,
                         jsonify(ZONE_DATA'))
  /\ UNCHANGED << now, SM_DATA, SETPOINTS, returned >>

\* URL matching: no rule for the path.
NotFound(r) ==
  /\ FirstIdle(r)
  /\ \E m \in Methods, p \in Paths \ Routes, o \in Origins :
       req' = Respond(Accepted(r, m, p, o, "dispatch"), r,
                      FrameworkResponse(404))
  /\ UNCHANGED << now, records, returned >>

\* A rule matches the path but not the method.
MethodNotAllowed(r) ==
  /\ FirstIdle(r)
  /\ \E m \in Methods \ RouteMethods, p \in Routes, o \in Origins :
       req' = Respond(Accepted(r, m, p, o, "dispatch"), r,
                      FrameworkResponse(405))
  /\ UNCHANGED << now, records, returned >>

\* The framework answers OPTIONS itself, without calling the view.
AutomaticOptions(r) ==
  /\ FirstIdle(r)
  /\ \E p \in Routes, o \in Origins :
       req' = Respond(Accepted(r, "OPTIONS", p, o, "dispatch"), r,
                      FrameworkResponse(200))
  /\ UNCHANGED << now, records, returned >>

\* GET on a rule's path: the view function of the rule is entered.  A
\* request for /data starts after the /data responses in `returned`.
Dispatch(r) ==
  /\ FirstIdle(r)
  /\ \E p \in Routes, o \in Origins :
       req' = [ Accepted(r, "GET", p, o, p) EXCEPT
                  ![r].seen = IF p = "/data" THEN returned ELSE {} ]
  /\ UNCHANGED << now, records, returned >>

\* data(), line 49, right-hand side: int(time.time()).
data_time(r) ==
  /\ req[r].pc = "/data"
  /\ req' = [req EXCEPT ![r].pc = "data_store", ![r].t = IntOfTime(now)]
  /\ UNCHANGED << now, records, returned >>

\* Mutant: the store rebinds the whole dictionary instead of one key.
data_store_rebind(r) ==
  /\ req[r].pc = "data_store"
  /\ ZONE_DATA' = [timestamp |-> PyInt(req[r].t)]
  /\ req' = [req EXCEPT ![r].pc = "data_jsonify"]
  /\ UNCHANGED << now, SM_DATA, SETPOINTS, returned >>

\* data(), line 49, the store into the shared dictionary.
data_store(r) ==
  /\ req[r].pc = "data_store"
  /\ ZONE_DATA' = [ZONE_DATA EXCEPT !.timestamp = PyInt(req[r].t)]
  /\ req' = [req EXCEPT ![r].pc = "data_jsonify"]
  /\ UNCHANGED << now, SM_DATA, SETPOINTS, returned >>

\* data(), line 50: the shared dictionary is read again and serialised.
data_jsonify(r) ==
  /\ req[r].pc = "data_jsonify"
  /\ req' = Respond(req, r, jsonify(ZONE_DATA))
  /\ returned' = Latest(returned \cup { RespTimestamp(req', r) })
  /\ UNCHANGED << now, records >>

\* Mutant: the view returns the wrong dictionary.
sm_wrong_record(r) ==
  /\ req[r].pc = "/data/1/sm"
  /\ req' = Respond(req, r, jsonify(SETPOINTS))
  /\ UNCHANGED << now, records, returned >>

sm(r) ==
  /\ req[r].pc = "/data/1/sm"
  /\ req' = Respond(req, r, jsonify(SM_DATA))
  /\ UNCHANGED << now, records, returned >>

\* Mutant: the view refreshes the zone timestamp as data() does.
setpoints_refreshing(r) ==
  /\ req[r].pc = "/data/1/setpoints"
  /\ ZONE_DATA' = [ZONE_DATA EXCEPT !.timestamp = PyInt(IntOfTime(now))]
  /\ req' = Respond(req, r, jsonify(SETPOINTS))
  /\ UNCHANGED << now, SM_DATA, SETPOINTS, returned >>

setpoints(r) ==
  /\ req[r].pc = "/data/1/setpoints"
  /\ req' = Respond(req, r, jsonify(SETPOINTS))
  /\ UNCHANGED << now, records, returned >>

\* The response has been sent; the thread is free for the next connection.
Close(r) ==
  /\ req[r].pc = "done"
  /\ req' = [req EXCEPT ![r] = IdleReq]
  /\ UNCHANGED << now, records, returned >>

Next ==
  \/ Tick
  \/ \E r \in Req : NotFound(r)
  \/ \E r \in Req : MethodNotAllowed(r)
  \/ \E r \in Req : AutomaticOptions(r)
  \/ \E r \in Req : Dispatch(r)
  \/ \E r \in Req : data_time(r)
  \/ \E r \in Req : data_store(r)
  \/ \E r \in Req : data_jsonify(r)
  \/ \E r \in Req : sm(r)
  \/ \E r \in Req : setpoints(r)
  \/ \E r \in Req : Close(r)

Spec == Init /\ [][Next]_vars

----------------------------------------------------------------------------
\* What a client reads off a finished request.
Done(r) == req[r].pc = "done"
Got(r, p) == Done(r) /\ req[r].method = "GET" /\ req[r].path = p
Num(m, s) == [mant |-> m, scale |-> s]

\* The browser's CORS check of a response against the requesting origin.
AllowsOrigin(resp, origin) ==
  \/ resp.acao = "*"
  \/ origin # NoOrigin /\ resp.acao = origin

\* C1: the timestamp in the response of a GET /data request is the clock
\* value this same request read, whatever the interleaving.
C1_ResponseCarriesOwnRead ==
  \A r \in Req : Got(r, "/data") => RespTimestamp(req, r) = req[r].t

\* C2: a GET /data request that starts after another GET /data request has
\* returned carries a timestamp not smaller than that of the earlier response
\* (req[r].seen holds the highest timestamp returned before r started).
C2_SuccessiveNonDecreasing ==
  \A r \in Req : Got(r, "/data") =>
    \A earlier \in req[r].seen : RespTimestamp(req, r) >= earlier

\* C3: GET /data returns 200 and a body with exactly the keys timestamp and
\* payload, the payload having exactly the 17 fields with their literal values.
C3_ZoneBody ==
  \A r \in Req : Got(r, "/data") =>
    /\ req[r].resp.status = 200
    /\ DOMAIN req[r].resp.body = { "timestamp", "payload" }
    /\ req[r].resp.body.timestamp.scale = 0
    /\ req[r].resp.body.payload =
         [ temperature |-> Num(169, 1), humidity |-> Num(334, 1),
           lux |-> Num(65516, 1), ph |-> Num(240, 1), ec |-> Num(1, 1),
           water_level |-> Num(1, 0), fan_status |-> Num(1, 0),
           light_status |-> Num(1, 0), curtain_status |-> Num(1, 0),
           valve_status |-> Num(0, 0), water_pump_status |-> Num(0, 0),
           fogger_status |-> Num(1, 0), tp4_temperature |-> Num(182, 1),
           ec_a |-> Num(4, 1), ec_b |-> Num(6, 1),
           macro_status |-> Num(1, 0), micro_status |-> Num(0, 0) ]

\* A GET /data response returned to a request that started after an earlier
\* GET /data response had been returned.
C3_Witness ==
  \E r \in Req : Got(r, "/data") /\ req[r].seen # {}

\* C4: after any requests, GET /data/1/sm returns 200 and the body
\* {no_of_soil_sensors: 4, payload: {soil_moisture_1: 45, soil_moisture_2: 47,
\* soil_moisture_3: 44, soil_moisture_4: 46}}.
C4_SoilMoistureBody ==
  \A r \in Req : Got(r, "/data/1/sm") =>
    /\ req[r].resp.status = 200
    /\ req[r].resp.body =
         [ no_of_soil_sensors |-> Num(4, 0),
           payload |-> [ soil_moisture_1 |-> Num(45, 0),
                         soil_moisture_2 |-> Num(47, 0),
                         soil_moisture_3 |-> Num(44, 0),
                         soil_moisture_4 |-> Num(46, 0) ] ]

\* A GET /data/1/sm response built after GET /data requests were served.
C4_Witness ==
  \E r \in Req : Got(r, "/data/1/sm") /\ returned # {}

\* C5: after any requests, GET /data/1/setpoints returns 200 and the body
\* {LUX-MINsetpoint: 3000, LUX-MAXsetpoint: 7000, EC-setpoint: 1.5}.
C5_SetpointsBody ==
  \A r \in Req : Got(r, "/data/1/setpoints") =>
    /\ req[r].resp.status = 200
    /\ req[r].resp.body =
         ( "LUX-MINsetpoint" :> Num(3000, 0) ) @@
         ( "LUX-MAXsetpoint" :> Num(7000, 0) ) @@
         ( "EC-setpoint"     :> Num(15, 1) )

\* A GET /data/1/setpoints response built after GET /data requests were served.
C5_Witness ==
  \E r \in Req : Got(r, "/data/1/setpoints") /\ returned # {}

C8_Frame ==
  [][ /\ \A r \in Req :
           (req[r].pc \in { "/data/1/sm", "/data/1/setpoints" } /\ Done(r)')
             => UNCHANGED records
      /\ \A r \in Req :
           ( /\ req[r].pc \in { "/data", "data_store", "data_jsonify" }
             /\ req'[r].pc # req[r].pc )
             => /\ DOMAIN ZONE_DATA' = DOMAIN ZONE_DATA
                /\ ZONE_DATA'.payload = ZONE_DATA.payload
                /\ UNCHANGED << SM_DATA, SETPOINTS >>
      /\ records' # records =>
           /\ \E r \in Req : /\ req[r].method = "GET" /\ req[r].path = "/data"
                             /\ req[r].pc = "data_store"
                             /\ req'[r].pc = "data_jsonify"
           /\ ZONE_DATA' = [ZONE_DATA EXCEPT !.timestamp = ZONE_DATA'.timestamp]
           /\ UNCHANGED << SM_DATA, SETPOINTS >> ]_vars

\* The /data view has stored a timestamp while a /data/1/sm or
\* /data/1/setpoints response is complete.
C8_Witness ==
  \E r, q \in Req :
    /\ req[r].pc = "data_jsonify" /\ ZONE_DATA.timestamp.val = req[r].t
    /\ Done(q) /\ req[q].method = "GET"
    /\ req[q].path \in { "/data/1/sm", "/data/1/setpoints" }

\* C9: in every reachable state LUX-MINsetpoint < LUX-MAXsetpoint.
C9_LuxMinBelowMax ==
  SETPOINTS["LUX-MINsetpoint"].val < SETPOINTS["LUX-MAXsetpoint"].val

\* The setpoints have been served and the /data view has run.
C9_Witness ==
  /\ returned # {}
  /\ \E r \in Req : Got(r, "/data/1/setpoints") /\ req[r].resp.status = 200

\* C10: in every reachable state the soil-moisture payload has exactly the
\* entries soil_moisture_1 .. soil_moisture_n, n being no_of_soil_sensors.
SensorKey(i) == "soil_moisture_" \o ToString(i)
C10_SensorCount ==
  LET n == SM_DATA.no_of_soil_sensors.val IN
    /\ DOMAIN SM_DATA.payload = { SensorKey(i) : i \in 1..n }
    /\ Cardinality(DOMAIN SM_DATA.payload) = n

\* The soil-moisture record has been served and the /data view has run.
C10_Witness ==
  /\ returned # {}
  /\ \E r \in Req : Got(r, "/data/1/sm") /\ req[r].resp.status = 200

====
